---- MODULE Spec2Model ----
(***************************************************************************)
(* Model of src/tauri/src/main.rs: interpreter discovery (find_python),    *)
(* script resolution (resolve_script_path) and the asynchronous process    *)
(* supervisor (trigger_workspace_snap) with its three Tokio tasks; and the  *)
(* tray and window event handlers of main(), in src/tauri/src/main.rs and  *)
(* in src/tauri/src-tauri/src/main.rs.                                     *)
(***************************************************************************)
EXTENDS Integers, Sequences, FiniteSets, TLC

VARIABLES
    shell,              \* the application shell: which main.rs is built, the main window, the event loop
    env,                \* the host the command runs on (OS, PATH probes, filesystem, arguments)
    pc,                 \* position of the trigger_workspace_snap handler
    arm,                \* statements of the Ok(mut child) arm still to run
    python_executable,  \* main.rs:109
    script_path,        \* Result of resolve_script_path, main.rs:113
    command_str,        \* the built command line, main.rs:118-136
    result,             \* what the handler returned to the caller
    child,              \* the spawned child process
    stderr_written,     \* every line the child has written to stderr so far
    stderr_pipe,        \* stderr lines written and not yet read
    stdout_written,     \* number of lines the child has written to stdout so far
    stdout_pipe,        \* stdout lines written and not yet read
    stdout_reader,      \* state of the task of main.rs:161-169
    stderr_reader,      \* state of the task of main.rs:173-182
    exit_waiter,        \* state of the task of main.rs:187-207
    sink                \* every app_handle.emit call so far, in emission order

vars == <<shell, env, pc, arm, python_executable, script_path, command_str, result, child,
          stderr_written, stderr_pipe, stdout_written, stdout_pipe,
          stdout_reader, stderr_reader, exit_waiter, sink>>

-----------------------------------------------------------------------------
(* Bounds of the model *)

\* most lines the child writes to stderr
MaxStderrLines == 2
\* most lines the child writes to stdout
MaxStdoutLines == 1
\* most tray and window events delivered to the application shell
MaxEvents == 3

-----------------------------------------------------------------------------
(* Values *)

\* An OsString / PathBuf is a sequence of path components.
OsStr(s) == <<s>>
Join(dir, name) == dir \o <<name>>

ScriptName == "workspace_snap_agent.py"
ResourceDir == <<"$RESOURCE">>
ExeDir == <<"$EXE_DIR">>

\* Outcome of Command::new(candidate).arg("--version").status()
ProbeOutcomes == {"launch_error", "exit_zero", "exit_nonzero"}

Candidates(target_os) ==
    IF target_os = "windows"
    THEN <<"py.exe", "python.exe", "python3.exe">>
    ELSE <<"python3", "python">>

CandidateSet(target_os) == {Candidates(target_os)[i] : i \in 1..Len(Candidates(target_os))}

\* The three search locations of resolve_script_path, as the filesystem shows them.
ResourceStates == {"exists", "missing", "resolve_error"}
\* (current_exe() names a file, so exe_path.parent() is always Some)
ExeStates == {"exists", "missing", "current_exe_error"}
CwdStates == {"exists", "missing"}

ConfigPaths == {"/tmp/layout.json"}
ProjectPaths == {"/home/u/proj"}
None == <<>>
Some(x) == <<x>>

ExitCodes == {0, 1, 2}
\* The text of the child's k-th stderr line: every line is different, so that a
\* reordered, repeated or dropped line shows.
StderrText(k) ==
    CASE k = 1 -> "Traceback (most recent call last):"
      [] k = 2 -> "  File \"workspace_snap_agent.py\", line 1"
      [] k = 3 -> "ValueError: bad layout"
      [] OTHER -> "exit"
StdoutText == {"snapped"}

Ok(v) == [tag |-> "Ok", value |-> v]
Err(e) == [tag |-> "Err", error |-> e]
Pending == [tag |-> "Pending"]

\* The String errors the command returns, by the format string that builds them.
ErrorMsg(kind, script, checked, command, os_error) ==
    [kind |-> kind, script |-> script, checked |-> checked,
     command |-> command, os_error |-> os_error]

-----------------------------------------------------------------------------
(* find_python, main.rs:27-48 *)

\* .status().is_ok(): the candidate could be launched; the exit code is not read.
ProbeSucceeded(outcome) == outcome = "exit_zero"
ProbeIsOk(outcome) == outcome # "launch_error"

RECURSIVE FirstLaunchable(_, _)
FirstLaunchable(candidates, probe) ==
    IF candidates = <<>>
    THEN "python"
    ELSE IF ProbeIsOk(probe[Head(candidates)])
         THEN Head(candidates)
         ELSE FirstLaunchable(Tail(candidates), probe)

find_python(target_os, probe) == FirstLaunchable(Candidates(target_os), probe)

-----------------------------------------------------------------------------
(* resolve_script_path, main.rs:51-95 *)

NotFoundMsg(script_name) ==
    ErrorMsg("ScriptNotFound", script_name,
             <<"Resource dir", "alongside executable", "CWD">>, <<>>, "")

resolve_script_path_cwd_first(fs, script_name) ==
    IF fs.resource = "exists" THEN Ok(Join(ResourceDir, script_name))
    ELSE IF fs.cwd = "exists" THEN Ok(OsStr(script_name))
    ELSE IF fs.exe = "exists" THEN Ok(Join(ExeDir, script_name))
    ELSE Err(NotFoundMsg(script_name))

resolve_script_path_default_cwd(fs, script_name) ==
    IF fs.resource = "exists" THEN Ok(Join(ResourceDir, script_name))
    ELSE IF fs.exe = "exists" THEN Ok(Join(ExeDir, script_name))
    ELSE Ok(OsStr(script_name))

\* A search that would give up at a location whose directory is unknown.
resolve_script_path_aborts_on_error(fs, script_name) ==
    IF fs.resource = "exists" THEN Ok(Join(ResourceDir, script_name))
    ELSE IF fs.resource = "resolve_error" THEN Err(NotFoundMsg(script_name))
    ELSE IF fs.exe = "exists" THEN Ok(Join(ExeDir, script_name))
    ELSE IF fs.exe = "current_exe_error" THEN Err(NotFoundMsg(script_name))
    ELSE IF fs.cwd = "exists" THEN Ok(OsStr(script_name))
    ELSE Err(NotFoundMsg(script_name))

resolve_script_path(fs, script_name) ==
    \* 1. resource directory: Ok(path) if path.exists() returns; Ok(path) and Err(e) fall through
    IF fs.resource = "exists" THEN Ok(Join(ResourceDir, script_name))
    \* 2. alongside the executable: only when current_exe() is Ok and has a parent
    ELSE IF fs.exe = "exists" THEN Ok(Join(ExeDir, script_name))
    \* 3. the bare name, relative to the current working directory
    ELSE IF fs.cwd = "exists" THEN Ok(OsStr(script_name))
    ELSE Err(NotFoundMsg(script_name))

-----------------------------------------------------------------------------
(* the command line, main.rs:118-136 *)

BuildCommandProjectFirst(python, script, config, project) ==
    <<OsStr(python), script>>
        \o (IF project # None THEN <<OsStr("--project-path"), OsStr(project[1])>> ELSE <<>>)
        \o <<OsStr("--config"), OsStr(config)>>

BuildCommand(python, script, config, project) ==
    LET cmd0 == <<OsStr(python)>>                       \* TokioCommand::new(&python_executable)
        cmd1 == Append(cmd0, script)                    \* cmd.arg(&script_path)
        cmd2 == Append(cmd1, OsStr("--config"))         \* cmd.arg("--config")
        cmd3 == Append(cmd2, OsStr(config))             \* cmd.arg(config_path)
    IN  IF project # None                               \* if let Some(p_path) = project_path
        THEN Append(Append(cmd3, OsStr("--project-path")), OsStr(project[1]))
        ELSE cmd3

-----------------------------------------------------------------------------
(* The host environment *)

Probes(target_os) == [CandidateSet(target_os) -> ProbeOutcomes]

FileSystems == [resource : ResourceStates, exe : ExeStates, cwd : CwdStates]

Envs(oses, fss) ==
    UNION {[target_os : {os}, probe : Probes(os), fs : fss,
            config_path : ConfigPaths,
            project_path : {None} \cup {Some(p) : p \in ProjectPaths}] : os \in oses}

\* Every host: each OS, each probe outcome of each candidate, each filesystem state.
AllEnvs == Envs({"windows", "unix"}, FileSystems)

\* The hosts the supervisor is run on: a Unix host where python3 launches (and exits
\* non-zero on --version), with the script found in the working directory only, or
\* found nowhere; with and without a project path.
SupervisedEnvs ==
    {e \in Envs({"unix"}, {[resource |-> "resolve_error", exe |-> "current_exe_error", cwd |-> "exists"],
                           [resource |-> "missing", exe |-> "missing", cwd |-> "missing"]}) :
        e.probe["python3"] = "exit_nonzero" /\ e.probe["python"] = "launch_error"}

\* Errors of cmd.spawn()
SpawnErrors == {"No such file or directory (os error 2)"}
\* Errors of child.wait().await
WaitErrors == {"No child processes (os error 10)"}

-----------------------------------------------------------------------------
(* Notifications, main.rs:145, 180, 193, 197, 204 *)

Payload(text, pid, line, status, command, os_error) ==
    [text |-> text, pid |-> pid, line |-> line, status |-> status,
     command |-> command, os_error |-> os_error]

\* Display of an ExitStatus
StatusText(code) ==
    CASE code = 0 -> "exit status: 0"
      [] code = 1 -> "exit status: 1"
      [] OTHER    -> "exit status: 2"

\* child.id() is Some for a child that has not been waited on.
ChildPid == "4242"

StartedEvent ==
    [event |-> "workspace-snap-started",
     payload |-> Payload("Agent PID: {}", ChildPid, "", "", <<>>, ""),
     logs_failure |-> TRUE]          \* unwrap_or_else(|e| eprintln!(..))

StderrEvent(line) ==
    [event |-> "workspace-snap-stderr",
     payload |-> Payload("{}", "", line, "", <<>>, ""),
     logs_failure |-> FALSE]         \* let _ = ..emit(..)

SuccessEvent(code) ==
    [event |-> "workspace-snap-success",
     payload |-> Payload("Agent exited successfully (Status: {})", "", "", StatusText(code), <<>>, ""),
     logs_failure |-> FALSE]

ExitErrorEvent(code) ==
    [event |-> "workspace-snap-error",
     payload |-> Payload("Agent exited with non-zero status: {}", "", "", StatusText(code), <<>>, ""),
     logs_failure |-> FALSE]

\* A wait-failure notification that would leave the command line out.
WaitErrorEventNoCommand(command, e) ==
    [event |-> "workspace-snap-error",
     payload |-> Payload("Failed to wait for Workspace Snap Agent process: {}",
                         "", "", "", <<>>, e),
     logs_failure |-> FALSE]

WaitErrorEvent(command, e) ==
    [event |-> "workspace-snap-error",
     payload |-> Payload("Failed to wait for Workspace Snap Agent process ({:?}): {}",
                         "", "", "", command, e),
     logs_failure |-> FALSE]

\* app_handle.emit(event, payload): the delivery succeeds or fails; a failure is
\* printed only where the call site prints it.
Emitted(e, failed) ==
    [event |-> e.event, payload |-> e.payload, delivery_failed |-> failed,
     failure_logged |-> (failed /\ e.logs_failure)]

RECURSIVE EmitAll(_, _)
EmitAll(log, events) ==
    IF events = <<>>
    THEN {log}
    ELSE UNION {EmitAll(Append(log, Emitted(Head(events), failed)), Tail(events)) :
                    failed \in BOOLEAN}

Emit(events) == sink' \in EmitAll(sink, events)

-----------------------------------------------------------------------------
(* Initial states *)

NoChild == [state |-> "none", code |-> 0]

\* The two main.rs of the repository; only the first registers the command.
Builds == {"src/tauri/src", "src/tauri/src-tauri/src"}

\* The shell once setup has run. src/tauri/src shows and focuses the main window;
\* src/tauri/src-tauri/src leaves it as the window configuration created it.
ShellsAfterSetup(build) ==
    {[build |-> build, visible |-> v, focused |-> v, minimized |-> FALSE,
      closed |-> FALSE, running |-> TRUE, events |-> <<>>] :
        v \in IF build = "src/tauri/src" THEN {TRUE} ELSE BOOLEAN}

InitWith(envs, builds) ==
    /\ shell \in UNION {ShellsAfterSetup(b) : b \in builds}
    /\ env \in envs
    /\ pc = "idle"
    /\ arm = <<>>
    /\ python_executable = ""
    /\ script_path = Pending
    /\ command_str = <<>>
    /\ result = Pending
    /\ child = NoChild
    /\ stderr_written = <<>>
    /\ stderr_pipe = <<>>
    /\ stdout_written = 0
    /\ stdout_pipe = <<>>
    /\ stdout_reader = "unspawned"
    /\ stderr_reader = "unspawned"
    /\ exit_waiter = "unspawned"
    /\ sink = <<>>

InitOn(envs) == InitWith(envs, {"src/tauri/src"})

Init == InitOn(SupervisedEnvs)

-----------------------------------------------------------------------------
(* trigger_workspace_snap, main.rs:102-221 *)

\* What the Ok(mut child) arm does, in program order (main.rs:145, 161, 173, 187).
HandlerOrderStartedLast ==
    <<"spawn_stdout_reader", "spawn_stderr_reader", "spawn_exit_waiter", "emit_started">>
HandlerOrder ==
    <<"emit_started", "spawn_stdout_reader", "spawn_stderr_reader", "spawn_exit_waiter">>

\* The message of the Err(e) arm of cmd.spawn(), main.rs:215.
SpawnFailedMsgNoCommand(command, e) == ErrorMsg("SpawnFailed", "", <<>>, <<>>, e)
SpawnFailedMsg(command, e) == ErrorMsg("SpawnFailed", "", <<>>, command, e)

\* main.rs:109-138: discovery, resolution, the command line and cmd.spawn().
trigger_workspace_snap ==
    /\ pc = "idle"
    /\ LET python == find_python(env.target_os, env.probe)
           script == resolve_script_path(env.fs, ScriptName)
       IN  /\ python_executable' = python
           /\ script_path' = script
           /\ IF script.tag = "Err"
              THEN \* the ? of main.rs:113
                   /\ result' = Err(script.error)
                   /\ pc' = "returned"
                   /\ UNCHANGED <<arm, command_str, child>>
              ELSE LET cmd == BuildCommand(python, script.value, env.config_path, env.project_path)
                   IN  /\ command_str' = cmd
                       /\ \/ \* Ok(mut child)
                             /\ child' = [state |-> "running", code |-> 0]
                             /\ pc' = "spawned"
                             /\ arm' = HandlerOrder
                             /\ UNCHANGED result
                          \/ \* Err(e)
                             \E e \in SpawnErrors :
                                /\ result' = Err(SpawnFailedMsg(cmd, e))
                                /\ pc' = "returned"
                                /\ UNCHANGED <<arm, child>>
    /\ UNCHANGED <<shell, env, stderr_written, stderr_pipe, stdout_written, stdout_pipe,
                   stdout_reader, stderr_reader, exit_waiter, sink>>

\* One statement of the Ok(mut child) arm; after the last one the handler returns Ok(()).
HandlerStep ==
    /\ pc = "spawned"
    /\ LET step == Head(arm)
       IN  /\ IF step = "emit_started" THEN Emit(<<StartedEvent>>) ELSE UNCHANGED sink
           /\ stdout_reader' = IF step = "spawn_stdout_reader" THEN "reading" ELSE stdout_reader
           /\ stderr_reader' = IF step = "spawn_stderr_reader" THEN "reading" ELSE stderr_reader
           /\ exit_waiter' = IF step = "spawn_exit_waiter" THEN "waiting" ELSE exit_waiter
    /\ arm' = Tail(arm)
    /\ IF Tail(arm) = <<>>
       THEN pc' = "returned" /\ result' = Ok("unit")
       ELSE UNCHANGED <<pc, result>>
    /\ UNCHANGED <<shell, env, python_executable, script_path, command_str, child,
                   stderr_written, stderr_pipe, stdout_written, stdout_pipe>>

-----------------------------------------------------------------------------
(* The child process *)

ChildWritesStderr ==
    /\ child.state = "running"
    /\ Len(stderr_written) < MaxStderrLines
    /\ LET line == StderrText(Len(stderr_written) + 1)
       IN  /\ stderr_written' = Append(stderr_written, line)
           /\ stderr_pipe' = Append(stderr_pipe, line)
    /\ UNCHANGED <<shell, env, pc, arm, python_executable, script_path, command_str, result, child,
                   stdout_written, stdout_pipe, stdout_reader, stderr_reader, exit_waiter, sink>>

ChildWritesStdout ==
    /\ child.state = "running"
    /\ stdout_written < MaxStdoutLines
    /\ \E line \in StdoutText :
          /\ stdout_written' = stdout_written + 1
          /\ stdout_pipe' = Append(stdout_pipe, line)
    /\ UNCHANGED <<shell, env, pc, arm, python_executable, script_path, command_str, result, child,
                   stderr_written, stderr_pipe, stdout_reader, stderr_reader, exit_waiter, sink>>

\* The child terminates with an exit code; its ends of both pipes close.
ChildExits ==
    /\ child.state = "running"
    /\ \E code \in ExitCodes : child' = [state |-> "exited", code |-> code]
    /\ UNCHANGED <<shell, env, pc, arm, python_executable, script_path, command_str, result,
                   stderr_written, stderr_pipe, stdout_written, stdout_pipe,
                   stdout_reader, stderr_reader, exit_waiter, sink>>

\* The child stops making progress and never exits; its pipes stay open.
ChildHangs ==
    /\ child.state = "running"
    /\ child' = [state |-> "hung", code |-> 0]
    /\ UNCHANGED <<shell, env, pc, arm, python_executable, script_path, command_str, result,
                   stderr_written, stderr_pipe, stdout_written, stdout_pipe,
                   stdout_reader, stderr_reader, exit_waiter, sink>>

-----------------------------------------------------------------------------
(* The stdout task, main.rs:161-169 *)

\* One lines.next_line().await: a line (printed, not emitted), end of stream once
\* the child has exited and the pipe is drained, or a read error.
\* A stdout reader with the emit of main.rs:167 in force.
StdoutReaderStepForwards ==
    /\ stdout_reader = "reading"
    /\ \/ /\ stdout_pipe # <<>>
          /\ Emit(<<[event |-> "workspace-snap-stdout",
                     payload |-> Payload("{}", "", Head(stdout_pipe), "", <<>>, ""),
                     logs_failure |-> FALSE]>>)
          /\ stdout_pipe' = Tail(stdout_pipe)
          /\ UNCHANGED stdout_reader
       \/ /\ stdout_pipe = <<>>
          /\ child.state = "exited"
          /\ stdout_reader' = "eof"
          /\ UNCHANGED <<stdout_pipe, sink>>
       \/ /\ stdout_pipe # <<>>
          /\ stdout_reader' = "read_error"
          /\ UNCHANGED <<stdout_pipe, sink>>
    /\ UNCHANGED <<shell, env, pc, arm, python_executable, script_path, command_str, result, child,
                   stderr_written, stderr_pipe, stdout_written, stderr_reader, exit_waiter>>

StdoutReaderStep ==
    /\ stdout_reader = "reading"
    /\ \/ /\ stdout_pipe # <<>>
          /\ stdout_pipe' = Tail(stdout_pipe)
          /\ UNCHANGED stdout_reader
       \/ /\ stdout_pipe = <<>>
          /\ child.state = "exited"
          /\ stdout_reader' = "eof"
          /\ UNCHANGED stdout_pipe
       \/ /\ stdout_pipe # <<>>
          /\ stdout_reader' = "read_error"
          /\ UNCHANGED stdout_pipe
    /\ UNCHANGED <<shell, env, pc, arm, python_executable, script_path, command_str, result, child,
                   stderr_written, stderr_pipe, stdout_written, stderr_reader, exit_waiter, sink>>

-----------------------------------------------------------------------------
(* The stderr task, main.rs:173-182 *)

\* while let: the loop goes on to the next line after each one.
StderrLoopOnce == "eof"
StderrLoop == "reading"

\* A stderr reader that would skip the unreadable line and go on reading.
StderrReaderStepResumesAfterError ==
    /\ stderr_reader = "reading"
    /\ \/ /\ stderr_pipe # <<>>
          /\ Emit(<<StderrEvent(Head(stderr_pipe))>>)
          /\ stderr_pipe' = Tail(stderr_pipe)
          /\ stderr_reader' = StderrLoop
       \/ /\ stderr_pipe = <<>>
          /\ child.state = "exited"
          /\ stderr_reader' = "eof"
          /\ UNCHANGED <<stderr_pipe, sink>>
       \/ /\ stderr_pipe # <<>>
          /\ stderr_pipe' = Tail(stderr_pipe)
          /\ UNCHANGED <<stderr_reader, sink>>
    /\ UNCHANGED <<shell, env, pc, arm, python_executable, script_path, command_str, result, child,
                   stderr_written, stdout_written, stdout_pipe, stdout_reader, exit_waiter>>

StderrReaderStep ==
    /\ stderr_reader = "reading"
    /\ \/ \* Ok(Some(line)): eprintln and emit
          /\ stderr_pipe # <<>>
          /\ Emit(<<StderrEvent(Head(stderr_pipe))>>)
          /\ stderr_pipe' = Tail(stderr_pipe)
          /\ stderr_reader' = StderrLoop
       \/ \* Ok(None)
          /\ stderr_pipe = <<>>
          /\ child.state = "exited"
          /\ stderr_reader' = "eof"
          /\ UNCHANGED <<stderr_pipe, sink>>
       \/ \* Err(e): the loop ends, the rest of the stream is never read
          /\ stderr_pipe # <<>>
          /\ stderr_reader' = "read_error"
          /\ UNCHANGED <<stderr_pipe, sink>>
    /\ UNCHANGED <<shell, env, pc, arm, python_executable, script_path, command_str, result, child,
                   stderr_written, stdout_written, stdout_pipe, stdout_reader, exit_waiter>>

-----------------------------------------------------------------------------
(* The exit waiter task, main.rs:187-207 *)

\* Ok(status): success or error by status.success()
ExitNotificationNoElse(code) ==
    IF code = 0 THEN <<SuccessEvent(code), ExitErrorEvent(code)>> ELSE <<ExitErrorEvent(code)>>
ExitNotificationSilentOnFailure(code) ==
    IF code = 0 THEN <<SuccessEvent(code)>> ELSE <<>>
ExitNotificationAlwaysSuccess(code) == <<SuccessEvent(code)>>
ExitNotification(code) ==
    IF code = 0 THEN <<SuccessEvent(code)>> ELSE <<ExitErrorEvent(code)>>

\* A waiter that would hand a non-zero exit back to the caller of the command.
WaitReturnsOverwritesResult ==
    /\ exit_waiter = "waiting"
    /\ child.state = "exited"
    /\ Emit(ExitNotification(child.code))
    /\ exit_waiter' = "done"
    /\ result' = IF child.code = 0 THEN result
                 ELSE Err(ErrorMsg("ExitedWithError", <<>>, <<>>, command_str, ""))
    /\ UNCHANGED <<shell, env, pc, arm, python_executable, script_path, command_str, child,
                   stderr_written, stderr_pipe, stdout_written, stdout_pipe,
                   stdout_reader, stderr_reader>>

\* A waiter that would join the stderr reader before it reports the exit.
WaitReturnsAfterStderrReader ==
    /\ exit_waiter = "waiting"
    /\ child.state = "exited"
    /\ stderr_reader \in {"eof", "read_error"}
    /\ Emit(ExitNotification(child.code))
    /\ exit_waiter' = "done"
    /\ UNCHANGED <<shell, env, pc, arm, python_executable, script_path, command_str, result, child,
                   stderr_written, stderr_pipe, stdout_written, stdout_pipe,
                   stdout_reader, stderr_reader>>

\* child.wait().await returns the exit status of a child that has exited.
WaitReturns ==
    /\ exit_waiter = "waiting"
    /\ child.state = "exited"
    /\ Emit(ExitNotification(child.code))
    /\ exit_waiter' = "done"
    /\ UNCHANGED <<shell, env, pc, arm, python_executable, script_path, command_str, result, child,
                   stderr_written, stderr_pipe, stdout_written, stdout_pipe,
                   stdout_reader, stderr_reader>>

\* child.wait().await fails: the status of the child cannot be obtained.
WaitFails ==
    /\ exit_waiter = "waiting"
    /\ \E e \in WaitErrors : Emit(<<WaitErrorEvent(command_str, e)>>)
    /\ exit_waiter' = "wait_failed"
    /\ UNCHANGED <<shell, env, pc, arm, python_executable, script_path, command_str, result, child,
                   stderr_written, stderr_pipe, stdout_written, stdout_pipe,
                   stdout_reader, stderr_reader>>

-----------------------------------------------------------------------------
(* Specifications *)

Next ==
    \/ trigger_workspace_snap
    \/ HandlerStep
    \/ ChildWritesStderr
    \/ ChildWritesStdout
    \/ ChildExits
    \/ ChildHangs
    \/ StdoutReaderStep
    \/ StderrReaderStep
    \/ WaitReturns
    \/ WaitFails

Spec == Init /\ [][Next]_vars

\* The handler runs to its return and the Tokio runtime polls every task that can
\* make progress; nothing makes the child exit, write, or the wait fail.
FairSpec ==
    /\ Spec
    /\ WF_vars(trigger_workspace_snap)
    /\ WF_vars(HandlerStep)
    /\ WF_vars(StdoutReaderStep)
    /\ WF_vars(StderrReaderStep)
    /\ WF_vars(WaitReturns)

\* find_python, resolve_script_path and the command line on every host.
LocateInit == InitOn(AllEnvs)
LocateSpec == LocateInit /\ [][trigger_workspace_snap]_vars

-----------------------------------------------------------------------------
(* Reading the sink *)

Started(n) == n.event = "workspace-snap-started"
StderrLine(n) == n.event = "workspace-snap-stderr"
Success(n) == n.event = "workspace-snap-success"
Error(n) == n.event = "workspace-snap-error"
Terminal(n) == Success(n) \/ Error(n)

Positions(Test(_)) == {i \in DOMAIN sink : Test(sink[i])}
Count(Test(_)) == Cardinality(Positions(Test))

\* The lines of the stderr-line notifications, in emission order.
EmittedLines == [i \in DOMAIN SelectSeq(sink, StderrLine) |-> SelectSeq(sink, StderrLine)[i].payload.line]

IsPrefix(s, t) == Len(s) <= Len(t) /\ \A i \in 1..Len(s) : s[i] = t[i]

SpawnSucceeded == child.state # "none"
ReturnedOk == pc = "returned" /\ result.tag = "Ok"
WaiterFinished == exit_waiter \in {"done", "wait_failed"}

-----------------------------------------------------------------------------
(* Claims about the supervisor *)

\* C1: every stderr-line notification and every terminal notification (success or
\* error) is preceded in the sink by the Started notification, whatever the
\* interleaving of the handler, the child and the three tasks.
C1_StartedPrecedesAll ==
    \A i \in DOMAIN sink :
        (StderrLine(sink[i]) \/ Terminal(sink[i])) => \E j \in 1..(i - 1) : Started(sink[j])

C1_Witness ==
    /\ Len(sink) >= 3
    /\ Started(sink[1])
    /\ Count(StderrLine) >= 1
    /\ Count(Terminal) = 1

\* C2: at most one terminal notification is ever emitted; a success and an error
\* never both.
C2_AtMostOneTerminal ==
    /\ Count(Terminal) <= 1
    /\ ~(Count(Success) >= 1 /\ Count(Error) >= 1)

C2_Witness ==
    /\ child.state = "exited"
    /\ child.code = 0
    /\ exit_waiter = "wait_failed"
    /\ Count(Error) = 1
    /\ Count(Success) = 0

\* C3 as claimed: after a successful spawn the run always comes to have exactly
\* one Started and exactly one terminal notification, Started first.
C3_AsClaimed ==
    SpawnSucceeded ~> (Count(Started) = 1 /\ Count(Terminal) = 1 /\ Started(sink[1]))

C3_Safety ==
    /\ Count(Started) <= 1
    /\ Count(Terminal) <= 1
    /\ (SpawnSucceeded /\ (pc = "returned" \/ Head(arm) # "emit_started"))
         => (Count(Started) = 1 /\ Started(sink[1]))
    /\ Count(Terminal) = 1 <=> WaiterFinished
    /\ Count(Terminal) = 1 => (child.state = "exited" \/ exit_waiter = "wait_failed")

\* C3 (amended): after a successful spawn exactly one Started notification is
\* emitted, ahead of every other notification; at most one terminal notification is
\* emitted, exactly when the exit waiter has finished (the child exited or the wait
\* failed), and a child that has exited always leads to it; a child that never
\* exits gets none.
C3_StartedOnceTerminalOncePerExit ==
    /\ []C3_Safety
    /\ (child.state = "exited") ~> (Count(Terminal) = 1)

C3_Witness ==
    /\ ReturnedOk
    /\ child.state = "exited"
    /\ child.code = 1
    /\ exit_waiter = "done"
    /\ Count(Started) = 1
    /\ Count(Error) = 1

ExitedWith(code) == child.state = "exited" /\ child.code = code

\* C4 as claimed: once a child that exited successfully has been read to the end
\* of its stderr and waited for, the stderr-line notifications are its lines in
\* write order and the one success notification comes after all of them.
C4_AsClaimed ==
    (ExitedWith(0) /\ stderr_reader = "eof" /\ exit_waiter = "done")
        => /\ EmittedLines = stderr_written
           /\ Count(Success) = 1
           /\ \A i \in Positions(StderrLine) : \A j \in Positions(Success) : i < j

C4_Safety ==
    /\ IsPrefix(EmittedLines, stderr_written)
    /\ (ExitedWith(0) /\ stderr_reader = "eof") => EmittedLines = stderr_written
    /\ (ExitedWith(0) /\ exit_waiter = "done") => (Count(Success) = 1 /\ Count(Error) = 0)

\* C4 (amended): for a child that writes N lines to stderr and exits successfully,
\* the stderr-line notifications are always a prefix of its lines in write order
\* and are exactly the N lines once the reader has reached end-of-stream; exactly
\* one success notification and no error notification is emitted once the wait has
\* returned; both come about unless a read error or a wait failure intervenes. The
\* success notification is not ordered after the stderr-line notifications.
C4_AllLinesAndOneSuccess ==
    /\ []C4_Safety
    /\ ExitedWith(0) ~> (/\ EmittedLines = stderr_written \/ stderr_reader = "read_error"
                         /\ Count(Success) = 1 \/ exit_waiter = "wait_failed")

C4_Witness ==
    /\ ExitedWith(0)
    /\ Len(stderr_written) = MaxStderrLines
    /\ stderr_reader = "eof"
    /\ exit_waiter = "done"
    /\ EmittedLines = stderr_written
    /\ Success(sink[2])
    /\ StderrLine(sink[Len(sink)])

\* C5: for a child that exited with a non-zero status no success notification is
\* ever emitted, and once the wait has returned the sink holds an error
\* notification whose text carries that exit status.
C5_NonZeroExitReportsError ==
    (child.state = "exited" /\ child.code # 0)
        => /\ Count(Success) = 0
           /\ exit_waiter = "done"
                => \E i \in Positions(Error) :
                      /\ sink[i].payload.text = "Agent exited with non-zero status: {}"
                      /\ child.code = 1 => sink[i].payload.status = "exit status: 1"
                      /\ child.code = 2 => sink[i].payload.status = "exit status: 2"

C5_Witness ==
    /\ ExitedWith(2)
    /\ exit_waiter = "done"
    /\ Count(Error) = 1
    /\ Count(Success) = 0
    /\ Count(StderrLine) >= 1

\* C6: when cmd.spawn() fails the handler has returned an Err that carries the
\* whole command line, nothing has been emitted, no child exists and none of the
\* three tasks has been started.
C6_SpawnFailureIsSynchronous ==
    (result.tag = "Err" /\ result.error.kind = "SpawnFailed")
        => /\ pc = "returned"
           /\ Len(command_str) >= 4
           /\ result.error.command = command_str
           /\ sink = <<>>
           /\ child.state = "none"
           /\ stdout_reader = "unspawned"
           /\ stderr_reader = "unspawned"
           /\ exit_waiter = "unspawned"

C6_Witness ==
    /\ result.tag = "Err"
    /\ result.error.kind = "SpawnFailed"
    /\ Len(result.error.command) = 6
    /\ sink = <<>>

-----------------------------------------------------------------------------
(* Claims about discovery, resolution and the command line *)

Resolved == script_path.tag # "Pending"

\* C7: the resolved path is the one in the first of (1) the resource directory,
\* (2) the executable's directory, (3) the working directory that holds the script.
C7_FirstExistingLocation ==
    Resolved =>
        /\ env.fs.resource = "exists"
             => script_path = Ok(<<"$RESOURCE", "workspace_snap_agent.py">>)
        /\ (env.fs.resource # "exists" /\ env.fs.exe = "exists")
             => script_path = Ok(<<"$EXE_DIR", "workspace_snap_agent.py">>)
        /\ (env.fs.resource # "exists" /\ env.fs.exe # "exists" /\ env.fs.cwd = "exists")
             => script_path = Ok(<<"workspace_snap_agent.py">>)

C7_Witness ==
    /\ Resolved
    /\ env.fs = [resource |-> "missing", exe |-> "exists", cwd |-> "exists"]
    /\ script_path = Ok(<<"$EXE_DIR", "workspace_snap_agent.py">>)

Range(s) == {s[i] : i \in DOMAIN s}
NoneExists == env.fs.resource # "exists" /\ env.fs.exe # "exists" /\ env.fs.cwd # "exists"

\* C8: when the script is in none of the three locations the NotFound error lists
\* the locations checked, and a location whose directory could not be determined
\* is not listed as checked.
C8_NotFoundListsCheckedLocations ==
    (Resolved /\ NoneExists)
        => /\ script_path.tag = "Err"
           /\ script_path.error.kind = "ScriptNotFound"
           /\ Len(script_path.error.checked) <= 3
           /\ env.fs.resource = "resolve_error"
                => "Resource dir" \notin Range(script_path.error.checked)
           /\ env.fs.exe = "current_exe_error"
                => "alongside executable" \notin Range(script_path.error.checked)

\* C9: find_python returns the first candidate of the platform's list whose
\* --version run could be launched, whatever its exit code, and "python" when none
\* could.
C9_FirstLaunchableOrFallback ==
    python_executable # "" =>
        LET candidates == Candidates(env.target_os)
            launched == {i \in DOMAIN candidates : env.probe[candidates[i]] # "launch_error"}
        IN  /\ launched = {} => python_executable = "python"
            /\ \A i \in launched :
                   (\A j \in launched : i <= j) => python_executable = candidates[i]

C9_Witness ==
    /\ env.target_os = "windows"
    /\ env.probe = [c \in {"py.exe", "python.exe", "python3.exe"} |->
                        IF c = "py.exe" THEN "launch_error"
                        ELSE IF c = "python.exe" THEN "exit_nonzero" ELSE "exit_zero"]
    /\ python_executable = "python.exe"

\* C10: the command line is the interpreter, the script path, --config and the
\* config path, then --project-path and the project path exactly when one was given.
C10_CommandLine ==
    command_str # <<>> =>
        /\ script_path.tag = "Ok"
        /\ SubSeq(command_str, 1, 4) =
              <<<<python_executable>>, script_path.value, <<"--config">>, <<env.config_path>>>>
        /\ env.project_path = <<>> => Len(command_str) = 4
        /\ env.project_path # <<>> =>
              /\ Len(command_str) = 6
              /\ command_str[5] = <<"--project-path">>
              /\ command_str[6] = env.project_path

C10_Witness ==
    /\ env.project_path = <<>>
    /\ command_str = <<<<"python3">>, <<"$RESOURCE", "workspace_snap_agent.py">>,
                       <<"--config">>, <<"/tmp/layout.json">>>>

-----------------------------------------------------------------------------
(* Claims about the synchronous result *)

\* The processes find_python has launched: it probes the candidates in order and
\* stops at the first that launches, so that one is the only one that ran.
ProbeProcesses ==
    IF python_executable = ""
    THEN {}
    ELSE {c \in CandidateSet(env.target_os) :
             c = python_executable /\ env.probe[c] # "launch_error"}

\* C11 as claimed: with the script in none of the three locations the handler
\* returns the not-found error, nothing is emitted and no process at all is launched.
C11_AsClaimed ==
    (pc # "idle" /\ NoneExists)
        => /\ result.tag = "Err"
           /\ result.error.kind = "ScriptNotFound"
           /\ sink = <<>>
           /\ child.state = "none"
           /\ ProbeProcesses = {}

\* C11 (amended): when the script is in none of the three locations the handler has
\* returned the not-found error, no command line was built, the agent process was
\* not spawned, none of the three tasks was started and nothing was ever emitted;
\* the only process launched is the --version probe of find_python, which runs
\* before the script is resolved.
C11_NotFoundAbortsBeforeSpawn ==
    (pc # "idle" /\ NoneExists)
        => /\ pc = "returned"
           /\ result.tag = "Err"
           /\ result.error.kind = "ScriptNotFound"
           /\ command_str = <<>>
           /\ child.state = "none"
           /\ stdout_reader = "unspawned"
           /\ stderr_reader = "unspawned"
           /\ exit_waiter = "unspawned"
           /\ sink = <<>>
           /\ ProbeProcesses \subseteq {python_executable}

C11_Witness ==
    /\ NoneExists
    /\ pc = "returned"
    /\ result.tag = "Err"
    /\ result.error.kind = "ScriptNotFound"
    /\ ProbeProcesses = {"python3"}


\* The synchronous result is only ever an error of a kind found before or at spawn,
\* and then nothing was emitted; once the three tasks are scheduled it is Ok.
C12_SynchronousResult ==
    /\ result.tag = "Err"
          => /\ result.error.kind \in {"ScriptNotFound", "SpawnFailed"}
             /\ child.state = "none"
             /\ sink = <<>>
    /\ (pc = "returned" /\ SpawnSucceeded) => result = Ok("unit")
    /\ (\E n \in DOMAIN sink : Error(sink[n])) => result.tag # "Err"

\* C12: the handler returns Ok once the three tasks are scheduled, whatever the
\* child is doing; a result once returned is never changed by a later step; only
\* failures found before or at spawn are returned, a non-zero exit or a wait
\* failure shows only as an error notification.
C12_ReturnedResultIsFinal ==
    /\ []C12_SynchronousResult
    /\ [][result.tag # "Pending" => result' = result]_vars
    /\ [][(pc = "spawned" /\ pc' = "returned")
             => (result' = Ok("unit") /\ exit_waiter' = "waiting")]_vars

C12_Witness ==
    /\ ReturnedOk
    /\ exit_waiter = "done"
    /\ child.code # 0
    /\ \E n \in DOMAIN sink : Error(sink[n])

-----------------------------------------------------------------------------
(* Claims about delivery to the sink and about the order of the tasks *)

\* C13: a delivery failure never reaches the caller and is never retried (one
\* Started, no stderr line emitted twice, at most one terminal notification, the
\* result never an error once a notification was attempted), the reader goes on
\* after a failed stderr-line emit, and every failed delivery is logged locally.
C13_DeliveryFailureContained ==
    /\ sink # <<>> => result.tag # "Err"
    /\ Count(Started) <= 1
    /\ Count(Terminal) <= 1
    /\ EmittedLines \o stderr_pipe = stderr_written
    /\ (pc = "returned" /\ SpawnSucceeded)
          => (result = Ok("unit") /\ stdout_reader # "unspawned"
              /\ stderr_reader # "unspawned" /\ exit_waiter # "unspawned")
    /\ \A n \in DOMAIN sink : sink[n].delivery_failed => sink[n].failure_logged

\* C14: the exit waiter and the stderr reader are not ordered: once the child has
\* exited the waiter can emit the terminal notification whatever the stderr reader
\* has still to read, and the reader can emit a line whatever the waiter has done.
C14_NoOrderBetweenWaiterAndReader ==
    /\ (exit_waiter = "waiting" /\ child.state = "exited") => ENABLED WaitReturns
    /\ (stderr_reader = "reading" /\ stderr_pipe # <<>>) => ENABLED StderrReaderStep

\* The terminal notification is in the sink before the last stderr line.
C14_Witness ==
    \E i, j \in DOMAIN sink :
        /\ i < j
        /\ Terminal(sink[i])
        /\ StderrLine(sink[j])
        /\ sink[j].payload.line = stderr_written[Len(stderr_written)]
        /\ stderr_pipe = <<>>

\* The sink holds only the four notifications of the supervisor, none of them
\* carrying a stdout line, and a reader that saw end-of-stream has consumed all.
C15_NoStdoutInSink ==
    /\ \A n \in DOMAIN sink :
          /\ sink[n].event \in {"workspace-snap-started", "workspace-snap-stderr",
                                "workspace-snap-success", "workspace-snap-error"}
          /\ sink[n].payload.line \notin StdoutText
          /\ sink[n].payload.text \notin StdoutText
    /\ Count(Started) + Count(StderrLine) + Count(Terminal) = Len(sink)
    /\ stdout_reader = "eof" => stdout_pipe = <<>>

\* C15: stdout lines are consumed and never forwarded: no notification carries
\* stdout content, and no step that writes, reads or ends the stdout stream
\* changes the sink or any state the other tasks act on, so the notifications are
\* those of a child that wrote nothing to stdout.
C15_StdoutNeverForwarded ==
    /\ []C15_NoStdoutInSink
    /\ [][(stdout_pipe' # stdout_pipe \/ stdout_written' # stdout_written)
             => UNCHANGED <<sink, child, stderr_written, stderr_pipe, stderr_reader,
                            exit_waiter, result, pc>>]_vars
    /\ [][(stdout_reader = "reading" /\ stdout_reader' # stdout_reader)
             => UNCHANGED <<sink, child, stderr_written, stderr_pipe, stderr_reader,
                            exit_waiter, result, pc>>]_vars

C15_Witness ==
    /\ stdout_written = MaxStdoutLines
    /\ stdout_reader = "eof"
    /\ stdout_pipe = <<>>
    /\ exit_waiter = "done"
    /\ Count(Terminal) = 1

\* C16: when child.wait() fails the sink holds exactly one error notification
\* and no success; its text is the failed-to-wait description, different from the
\* text of a non-zero exit, and it carries the command line that was spawned.
C16_WaitFailureReportsCommand ==
    exit_waiter = "wait_failed"
        => /\ Count(Error) = 1
           /\ Count(Success) = 0
           /\ command_str # <<>>
           /\ \A n \in DOMAIN sink :
                 Error(sink[n])
                     => /\ sink[n].payload.text
                              = "Failed to wait for Workspace Snap Agent process ({:?}): {}"
                        /\ sink[n].payload.text # ExitErrorEvent(1).payload.text
                        /\ sink[n].payload.command = command_str
                        /\ sink[n].payload.os_error \in WaitErrors

C16_Witness ==
    /\ exit_waiter = "wait_failed"
    /\ child.state = "exited"
    /\ stderr_reader = "eof"
    /\ \E n \in DOMAIN sink : Error(sink[n]) /\ sink[n].payload.command = command_str

-----------------------------------------------------------------------------
(* Claims about locations that cannot be determined *)

\* C17: when the resource directory cannot be resolved or the path of the
\* executable cannot be obtained, the search goes on: a script in a later location
\* is returned, and the search fails only if no location holds the script.
C17_UndeterminedLocationIsSkipped ==
    (Resolved /\ (env.fs.resource = "resolve_error" \/ env.fs.exe = "current_exe_error"))
        => /\ (env.fs.resource = "resolve_error" /\ env.fs.exe = "exists")
                 => script_path = Ok(Join(ExeDir, ScriptName))
           /\ (env.fs.resource = "resolve_error" /\ env.fs.exe # "exists"
                   /\ env.fs.cwd = "exists")
                 => script_path = Ok(OsStr(ScriptName))
           /\ (env.fs.resource = "missing" /\ env.fs.exe = "current_exe_error"
                   /\ env.fs.cwd = "exists")
                 => script_path = Ok(OsStr(ScriptName))
           /\ script_path.tag = "Err" <=> NoneExists

C17_Witness ==
    /\ Resolved
    /\ env.fs = [resource |-> "resolve_error", exe |-> "current_exe_error", cwd |-> "exists"]
    /\ script_path = Ok(<<"workspace_snap_agent.py">>)
    /\ pc = "spawned"

-----------------------------------------------------------------------------
(* Claims about the stderr stream *)

\* The lines emitted so far are the lines written so far without the unread
\* ones: a prefix of what the child wrote, in order, no duplicate and no gap.
C18_EmittedIsPrefix ==
    /\ IsPrefix(EmittedLines, stderr_written)
    /\ EmittedLines \o stderr_pipe = stderr_written
    /\ Count(StderrLine) <= Len(stderr_written)

\* C18: the stderr-line notifications are always a prefix of the lines the child
\* wrote to stderr, and a reader that saw end-of-stream or a read error never
\* reads or emits again.
C18_StderrPrefixAndStop ==
    /\ []C18_EmittedIsPrefix
    /\ [][(stderr_reader = "eof" \/ stderr_reader = "read_error")
             => (stderr_reader' = stderr_reader
                 /\ IsPrefix(stderr_pipe, stderr_pipe')
                 /\ SelectSeq(sink', StderrLine) = SelectSeq(sink, StderrLine))]_vars
    /\ [][SelectSeq(sink', StderrLine) # SelectSeq(sink, StderrLine)
             => stderr_reader = "reading"]_vars

\* The reader stopped at a read error with a line read before it and lines left.
C18_Witness ==
    /\ stderr_reader = "read_error"
    /\ Len(EmittedLines) = 1
    /\ Len(stderr_written) = 2
    /\ stderr_pipe # <<>>
    /\ exit_waiter = "done"

-----------------------------------------------------------------------------
(* The application shell: tray and window event handlers of main()          *)
(* src/tauri/src/main.rs:225-360, src/tauri/src-tauri/src/main.rs:15-54     *)

supervisor_vars == <<env, pc, arm, python_executable, script_path, command_str, result, child,
                     stderr_written, stderr_pipe, stdout_written, stdout_pipe,
                     stdout_reader, stderr_reader, exit_waiter, sink>>

\* Items of the tray menu: show, hide and quit in src/tauri/src, none in src-tauri.
TrayMenu(build) == IF build = "src/tauri/src" THEN {"show", "hide", "quit"} ELSE {}

\* Window operations. The handlers run on the event loop, which is alive while
\* they run, so the operation reaches the window.
show(w) == [w EXCEPT !.visible = TRUE]
hide(w) == [w EXCEPT !.visible = FALSE, !.focused = FALSE]
unminimize(w) == [w EXCEPT !.minimized = FALSE]
\* the focus goes to a window that is shown and not minimized
set_focus(w) == [w EXCEPT !.focused = w.visible /\ ~w.minimized]
\* app_handle.exit(0)
exit(w) == [w EXCEPT !.running = FALSE]

Delivered(w, event) == [w EXCEPT !.events = Append(@, event)]
CanDeliver == shell.running /\ Len(shell.events) < MaxEvents

\* A close handler that would not call api.prevent_close().
prevent_close_omitted == FALSE
\* api.prevent_close() is called by the CloseRequested handler of both builds.
prevent_close == TRUE

\* WindowEvent::CloseRequested: hide the window and prevent the close. A close
\* that is not prevented destroys the only window, and the exit that follows is
\* not prevented by the run callback.
CloseRequested ==
    /\ CanDeliver
    /\ LET hidden == hide(shell)
       IN  shell' = Delivered([hidden EXCEPT !.closed = ~prevent_close,
                                            !.running = prevent_close],
                              "close_requested")
    /\ UNCHANGED supervisor_vars

\* SystemTrayEvent::LeftClick: show, (src/tauri/src only) unminimize, set_focus.
TrayLeftClick ==
    /\ CanDeliver
    /\ shell' = Delivered(IF shell.build = "src/tauri/src"
                          THEN set_focus(unminimize(show(shell)))
                          ELSE set_focus(show(shell)),
                          "tray_left_click")
    /\ UNCHANGED supervisor_vars

\* SystemTrayEvent::MenuItemClick on one of the items of the menu.
TrayMenuItemClick ==
    /\ CanDeliver
    /\ \E id \in TrayMenu(shell.build) :
          shell' = Delivered(CASE id = "quit" -> exit(shell)
                               [] id = "hide" -> hide(shell)
                               [] id = "show" -> set_focus(unminimize(show(shell))),
                             id)
    /\ UNCHANGED supervisor_vars

\* Any other tray event (right click, double click): ignored.
TrayOtherEvent ==
    /\ CanDeliver
    /\ shell' = Delivered(shell, "tray_right_click")
    /\ UNCHANGED supervisor_vars

\* The user minimizes the window; the window event is ignored by the handler.
WindowMinimized ==
    /\ CanDeliver
    /\ shell.visible
    /\ ~shell.minimized
    /\ shell' = Delivered([shell EXCEPT !.minimized = TRUE, !.focused = FALSE],
                          "window_minimized")
    /\ UNCHANGED supervisor_vars

TrayNext ==
    \/ CloseRequested
    \/ TrayLeftClick
    \/ TrayMenuItemClick
    \/ TrayOtherEvent
    \/ WindowMinimized

\* Both builds, on one host, with the supervisor idle.
TrayEnvs == {e \in SupervisedEnvs : e.fs.cwd = "exists" /\ e.project_path = None}
TrayInit == InitWith(TrayEnvs, Builds)
TraySpec == TrayInit /\ [][TrayNext]_vars

LastEvent == shell.events[Len(shell.events)]

\* C19: whatever close requests, tray clicks and menu clicks were delivered, the
\* main window was never closed; the application runs unless the last event was
\* the quit item; a close request leaves the window hidden, the hide item too;
\* a tray left click or the show item leaves it visible and focused.
C19_CloseRequestOnlyHides ==
    /\ ~shell.closed
    /\ "quit" \notin Range(shell.events) => shell.running
    /\ ~shell.running => LastEvent = "quit"
    /\ shell.events # <<>>
          => /\ LastEvent \in {"close_requested", "hide"}
                   => (shell.running /\ ~shell.visible)
             /\ (LastEvent \in {"tray_left_click", "show"}
                     /\ "window_minimized" \notin Range(shell.events))
                   => (shell.running /\ shell.visible /\ shell.focused)
             /\ (LastEvent \in {"tray_left_click", "show"}
                     /\ shell.build = "src/tauri/src")
                   => (shell.visible /\ shell.focused /\ ~shell.minimized)

\* close request, then a tray left click, then a close request again
C19_Witness ==
    /\ shell.events = <<"close_requested", "tray_left_click", "close_requested">>
    /\ shell.running
    /\ ~shell.visible
    /\ ~shell.closed
====
